---- MODULE Spec2Model ----
(***************************************************************************)
(* Model of the DataVault repository: the fetch-link-preview edge function *)
(* (src/unnamed/part_000).  Text values are TLA+ strings, read with Len,   *)
(* SubSeq and \o.  A nullable JavaScript value is a tuple: <<>> is null    *)
(* and <<s>> is the string s.                                              *)
(***************************************************************************)
EXTENDS Integers, Sequences, FiniteSets, TLC

(***************************************************************************)
(* Bounds of the model.                                                    *)
(***************************************************************************)
\* Largest number of chunks a remote body is delivered in.
MaxChunks == 2

(***************************************************************************)
(* Nullable values and string primitives of the JavaScript runtime.        *)
(***************************************************************************)
Null == <<>>

Str(s) == <<s>>

Val(v) == v[1]

\* JavaScript truthiness of a nullable string: null and "" are falsy.
Truthy(v) == v # Null /\ Val(v) # ""

StartsWith(s, p) == Len(s) >= Len(p) /\ SubSeq(s, 1, Len(p)) = p

\* Index of the first occurrence of sub in s, 0 when there is none.
IndexOf(s, sub) ==
  LET hits == {i \in 1..(Len(s) - Len(sub) + 1) : SubSeq(s, i, i + Len(sub) - 1) = sub}
  IN IF hits = {} THEN 0 ELSE CHOOSE i \in hits : \A j \in hits : i <= j

Includes(s, sub) == IndexOf(s, sub) # 0

Whitespace == {" ", "\t", "\n"}

RECURSIVE TrimStart(_)
TrimStart(s) ==
  IF Len(s) > 0 /\ SubSeq(s, 1, 1) \in Whitespace
  THEN TrimStart(SubSeq(s, 2, Len(s)))
  ELSE s

RECURSIVE TrimEnd(_)
TrimEnd(s) ==
  IF Len(s) > 0 /\ SubSeq(s, Len(s), Len(s)) \in Whitespace
  THEN TrimEnd(SubSeq(s, 1, Len(s) - 1))
  ELSE s

\* String.prototype.trim
Trim(s) == TrimEnd(TrimStart(s))

\* String.prototype.replace(pattern, replacement) with a string pattern:
\* only the first occurrence is replaced, wherever it is.
ReplaceFirst(s, pat, rep) ==
  LET i == IndexOf(s, pat)
  IN IF i = 0 THEN s
     ELSE SubSeq(s, 1, i - 1) \o rep \o SubSeq(s, i + Len(pat), Len(s))

(***************************************************************************)
(* The URL parser of the runtime (new URL), for http, https and ftp URLs   *)
(* made of letters, digits, '.', '/', ':', '?', '#' and whitespace: the    *)
(* host runs from the scheme's slashes to the first '/', '?' or '#', a     *)
(* port follows a ':' and is made of digits, and an empty host or a host   *)
(* with whitespace in it does not parse.                                   *)
(***************************************************************************)
Digits == {"0", "1", "2", "3", "4", "5", "6", "7", "8", "9"}

HasHttpScheme(s) == StartsWith(s, "http://") \/ StartsWith(s, "https://")

RECURSIVE SkipSlashes(_)
SkipSlashes(s) ==
  IF Len(s) > 0 /\ SubSeq(s, 1, 1) = "/" THEN SkipSlashes(SubSeq(s, 2, Len(s))) ELSE s

\* Index of the first character of s that is in the set cs, Len(s)+1 if none.
FirstOf(s, cs) ==
  LET hits == {i \in 1..Len(s) : SubSeq(s, i, i) \in cs}
  IN IF hits = {} THEN Len(s) + 1 ELSE CHOOSE i \in hits : \A j \in hits : i <= j

\* The scheme of u when u starts with scheme://, "" otherwise.
SchemeOf(u) ==
  IF StartsWith(u, "https://") THEN "https"
  ELSE IF StartsWith(u, "http://") THEN "http"
  ELSE IF StartsWith(u, "ftp://") THEN "ftp"
  ELSE ""

\* s without its characters that are in the set cs.
RECURSIVE RemoveAll(_, _)
RemoveAll(s, cs) ==
  LET i == FirstOf(s, cs)
  IN IF i > Len(s) THEN s
     ELSE SubSeq(s, 1, i - 1) \o RemoveAll(SubSeq(s, i + 1, Len(s)), cs)

\* The parser drops tabs and newlines anywhere in its input and spaces at
\* both ends of it.
CleanUrl(u) == Trim(RemoveAll(u, {"\t", "\n"}))

\* The parser on a cleaned input: Null when it fails, else <<the parsed URL>>.
ParseUrl(input) ==
  IF SchemeOf(input) = "" THEN Null
  ELSE
    LET scheme    == SchemeOf(input)
        rest      == SkipSlashes(SubSeq(input, Len(scheme) + 4, Len(input)))
        cut       == FirstOf(rest, {"/", "?", "#"})
        authority == SubSeq(rest, 1, cut - 1)
        tail      == SubSeq(rest, cut, Len(rest))
        colon     == FirstOf(authority, {":"})
        host      == SubSeq(authority, 1, colon - 1)
        port      == SubSeq(authority, colon + 1, Len(authority))
    IN IF \/ host = ""
          \/ \E i \in 1..Len(host) : SubSeq(host, i, i) \in Whitespace
          \/ \E i \in 1..Len(port) : SubSeq(port, i, i) \notin Digits
       THEN Null
       ELSE Str([scheme   |-> scheme,
                 hostname |-> host,
                 port     |-> port,
                 path     |-> IF StartsWith(tail, "/") THEN tail ELSE "/" \o tail])

\* new URL(u): Null when the constructor throws, else <<the parsed URL>>.
NewURL(u) == ParseUrl(CleanUrl(u))

Origin(p) ==
  p.scheme \o "://" \o p.hostname \o (IF p.port = "" THEN "" ELSE ":" \o p.port)

Href(p) == Origin(p) \o p.path

\* Index of the last '/' of a path that starts with '/'.
LastSlash(path) ==
  CHOOSE i \in 1..Len(path) :
    /\ SubSeq(path, i, i) = "/"
    /\ \A j \in (i + 1)..Len(path) : SubSeq(path, j, j) # "/"

\* new URL(relative, base).href: Null when the constructor throws.  A
\* reference with a scheme of its own is parsed without the base.
NewURLWithBase(relative, base) ==
  LET b == NewURL(base)
  IN IF b = Null THEN Null
     ELSE IF SchemeOf(relative) # ""
     THEN (IF NewURL(relative) = Null THEN Null ELSE Str(Href(Val(NewURL(relative)))))
     ELSE IF relative = "" THEN Str(Href(Val(b)))
     ELSE IF StartsWith(relative, "/") THEN Str(Origin(Val(b)) \o relative)
     ELSE LET path == SubSeq(Val(b).path, 1, FirstOf(Val(b).path, {"?", "#"}) - 1)
          IN Str(Origin(Val(b)) \o SubSeq(path, 1, LastSlash(path)) \o relative)

(***************************************************************************)
(* The markup of a page, as the regular expressions of the extractor see   *)
(* it: a sequence of tags.  A meta tag has one identifying attribute       *)
(* (attr="key") and one content attribute, in one of the two orders; a     *)
(* title element has its text in content.                                  *)
(***************************************************************************)
Meta(attr, key, content, order) ==
  [kind |-> "meta", attr |-> attr, key |-> key, content |-> content, order |-> order]

TitleTag(text) ==
  [kind |-> "title", attr |-> "", key |-> "", content |-> text, order |-> ""]

\* html.match(<meta[^>]*attr="key"[^>]*content="(..)">) for order "key-first",
\* html.match(<meta[^>]*content="(..)"[^>]*attr="key">) for "content-first":
\* the capture of the first tag that matches, Null when none does.
MatchMeta(tags, attr, key, order) ==
  LET hits == {i \in 1..Len(tags) :
                 /\ tags[i].kind = "meta"
                 /\ tags[i].attr = attr
                 /\ tags[i].key = key
                 /\ tags[i].order = order}
  IN IF hits = {} THEN Null
     ELSE Str(tags[CHOOSE i \in hits : \A j \in hits : i <= j].content)

\* html.match(<title[^>]*>([^<]*)</title>)
MatchTitleTag(tags) ==
  LET hits == {i \in 1..Len(tags) : tags[i].kind = "title"}
  IN IF hits = {} THEN Null
     ELSE Str(tags[CHOOSE i \in hits : \A j \in hits : i <= j].content)

extractMetaContent(html, property) ==
  LET ogMatch          == MatchMeta(html.tags, "property", "og:" \o property, "key-first")
      ogMatchReverse   == MatchMeta(html.tags, "property", "og:" \o property, "content-first")
      twitterMatch     == MatchMeta(html.tags, "name", "twitter:" \o property, "key-first")
      descMatch        == MatchMeta(html.tags, "name", "description", "key-first")
      descMatchReverse == MatchMeta(html.tags, "name", "description", "content-first")
  IN IF ogMatch # Null THEN ogMatch
     ELSE IF ogMatchReverse # Null THEN ogMatchReverse
     ELSE IF twitterMatch # Null THEN twitterMatch
     ELSE IF property = "description" /\ descMatch # Null THEN descMatch
     ELSE IF property = "description" /\ descMatchReverse # Null THEN descMatchReverse
     ELSE Null

extractTitle(html) ==
  LET ogTitle    == extractMetaContent(html, "title")
      titleMatch == MatchTitleTag(html.tags)
  IN IF Truthy(ogTitle) THEN ogTitle
     ELSE IF titleMatch # Null THEN Str(Trim(Val(titleMatch)))
     ELSE Null

getDomain(url) ==
  LET urlObj == NewURL(url)
  IN IF urlObj = Null THEN url
     ELSE ReplaceFirst(Val(urlObj).hostname, "www.", "")

resolveUrl_KeepScheme(base, relative) ==
  IF relative = "" THEN ""
  ELSE IF HasHttpScheme(relative) THEN relative
  ELSE IF StartsWith(relative, "//") THEN SchemeOf(base) \o ":" \o relative
  ELSE LET resolved == NewURLWithBase(relative, base)
       IN IF resolved = Null THEN relative ELSE Val(resolved)

resolveUrl(base, relative) ==
  IF relative = "" THEN ""
  ELSE IF HasHttpScheme(relative) THEN relative
  ELSE IF StartsWith(relative, "//") THEN "https:" \o relative
  ELSE LET resolved == NewURLWithBase(relative, base)
       IN IF resolved = Null THEN relative ELSE Val(resolved)

(***************************************************************************)
(* The helpers of the LinkPreviewCard component.                           *)
(***************************************************************************)
formatUrl(inputUrl) ==
  IF ~StartsWith(inputUrl, "http://") /\ ~StartsWith(inputUrl, "https://")
  THEN "https://" \o inputUrl
  ELSE inputUrl

\* getDomain of the component: it formats its input before it parses it.
LinkPreviewCard_getDomain(inputUrl) ==
  LET formatted == formatUrl(inputUrl)
      urlObj    == NewURL(formatted)
  IN IF urlObj = Null THEN inputUrl
     ELSE ReplaceFirst(Val(urlObj).hostname, "www.", "")

\* The preview the component sets when it has no data to show.
CardFallback(inputUrl) ==
  [title       |-> Null,
   description |-> Null,
   image       |-> Null,
   domain      |-> Str(LinkPreviewCard_getDomain(inputUrl)),
   url         |-> Str(formatUrl(inputUrl))]

\* What the await of supabase.functions.invoke gives: it throws, or it
\* resolves with { data, error }; body is Null when data is null, and is
\* else <<the parsed body>> with its success and data fields.
Thrown == [kind |-> "thrown", error |-> FALSE, body |-> Null]

InvokeError == [kind |-> "resolved", error |-> TRUE, body |-> Null]

InvokeData(body) == [kind |-> "resolved", error |-> FALSE, body |-> body]

\* invoke resolves with the response r of the function: a status outside
\* 2xx is an error, and else the body is the data.
InvokeResult(r) ==
  IF r.status < 200 \/ r.status > 299 THEN InvokeError
  ELSE InvokeData(Str([success |-> r.success, data |-> r.data]))

fetchPreview_ErrorLeavesNull(inputUrl, settled) ==
  IF settled.kind = "thrown" THEN Str(CardFallback(inputUrl))
  ELSE IF settled.error THEN Null
  ELSE IF settled.body # Null /\ Val(settled.body).success /\ Val(settled.body).data # Null
  THEN Val(settled.body).data
  ELSE Str(CardFallback(inputUrl))

\* fetchPreview after its await: the preview it sets for what invoke gave.
fetchPreview(inputUrl, settled) ==
  IF settled.kind = "thrown" THEN Str(CardFallback(inputUrl))
  ELSE IF settled.error THEN Str(CardFallback(inputUrl))
  ELSE IF settled.body # Null /\ Val(settled.body).success /\ Val(settled.body).data # Null
  THEN Val(settled.body).data
  ELSE Str(CardFallback(inputUrl))

\* String.prototype.substring(0, n)
Substring0(s, n) == SubSeq(s, 1, IF Len(s) < n THEN Len(s) ELSE n)

(***************************************************************************)
(* The pieces of the handler of Deno.serve.                                *)
(***************************************************************************)
maxBytes == 100 * 1024

TitleLimit == 200

DescriptionLimit == 300

UrlMissing_NullOnly(url) == url = Null

\* !url
UrlMissing(url) == ~Truthy(url)

FormatUrl_AlwaysPrepend(url) == "https://" \o Trim(url)

FormatUrl_NoTrim(url) ==
  IF ~StartsWith(url, "http://") /\ ~StartsWith(url, "https://")
  THEN "https://" \o url
  ELSE url

\* url.trim(), with https:// prepended unless a scheme is there
FormatUrl(url) ==
  LET trimmed == Trim(url)
  IN IF ~StartsWith(trimmed, "http://") /\ ~StartsWith(trimmed, "https://")
     THEN "https://" \o trimmed
     ELSE trimmed

ResponseOk_Below500(status) == status >= 200 /\ status <= 499

\* response.ok
ResponseOk(status) == status >= 200 /\ status <= 299

IsHtml_AnyType(contentType) ==
  Includes(IF Truthy(contentType) THEN Val(contentType) ELSE "", "")

\* (response.headers.get('content-type') || '').includes('text/html')
IsHtml(contentType) ==
  Includes(IF Truthy(contentType) THEN Val(contentType) ELSE "", "text/html")

\* while (bytesRead < maxBytes)
ReadMore(n) == n < maxBytes

\* decoder.decode(value, { stream: true }): the text of a chunk
Decode(chunk) == [len |-> chunk.chars, tags |-> chunk.tags]

\* html += text
AppendText(html, text) == [len |-> html.len + text.len, tags |-> html.tags \o text.tags]

EmptyHtml == [len |-> 0, tags |-> <<>>]

\* The preview returned when the fetch fails, the status is not a success
\* or the content is not HTML.
FallbackPreview(formattedUrl) ==
  [title       |-> Null,
   description |-> Null,
   image       |-> Null,
   domain      |-> Str(getDomain(formattedUrl)),
   url         |-> Str(formattedUrl)]

ExtractPreview_SwappedLimits(html, formattedUrl) ==
  LET title       == extractTitle(html)
      description == extractMetaContent(html, "description")
      found       == extractMetaContent(html, "image")
      image       == IF Truthy(found) THEN Str(resolveUrl(formattedUrl, Val(found))) ELSE found
  IN [title       |-> IF Truthy(title) THEN Str(Substring0(Val(title), DescriptionLimit)) ELSE Null,
      description |-> IF Truthy(description)
                      THEN Str(Substring0(Val(description), TitleLimit)) ELSE Null,
      image       |-> image,
      domain      |-> Str(getDomain(formattedUrl)),
      url         |-> Str(formattedUrl)]

\* The preview extracted from the captured markup.
ExtractPreview(html, formattedUrl) ==
  LET title       == extractTitle(html)
      description == extractMetaContent(html, "description")
      found       == extractMetaContent(html, "image")
      image       == IF Truthy(found) THEN Str(resolveUrl(formattedUrl, Val(found))) ELSE found
  IN [title       |-> IF Truthy(title) THEN Str(Substring0(Val(title), TitleLimit)) ELSE Null,
      description |-> IF Truthy(description)
                      THEN Str(Substring0(Val(description), DescriptionLimit)) ELSE Null,
      image       |-> image,
      domain      |-> Str(getDomain(formattedUrl)),
      url         |-> Str(formattedUrl)]

\* A response of the handler: data and error are Null when the body has no
\* such field; success is read only when the body is JSON.
NoResponse == [status |-> 0, json |-> FALSE, success |-> FALSE, data |-> Null, error |-> Null]

OptionsResponse == [status |-> 200, json |-> FALSE, success |-> FALSE, data |-> Null, error |-> Null]

UrlRequiredResponse ==
  [status |-> 400, json |-> TRUE, success |-> FALSE, data |-> Null, error |-> Str("URL is required")]

SuccessResponse(data) ==
  [status |-> 200, json |-> TRUE, success |-> TRUE, data |-> Str(data), error |-> Null]

ErrorResponse_AlwaysFixed(fault) ==
  [status |-> 500, json |-> TRUE, success |-> FALSE, data |-> Null,
   error |-> Str("Failed to fetch preview")]

\* error instanceof Error ? error.message : 'Failed to fetch preview'
ErrorResponse(fault) ==
  [status |-> 500, json |-> TRUE, success |-> FALSE, data |-> Null,
   error |-> Str(IF fault.isError THEN fault.message ELSE "Failed to fetch preview")]

(***************************************************************************)
(* The inputs: the requests a client sends and the behaviours of the       *)
(* remote server the handler fetches from.                                 *)
(***************************************************************************)
RECURSIVE Repeat(_, _)
Repeat(s, n) == IF n = 0 THEN "" ELSE s \o Repeat(s, n - 1)

\* A host of 253 characters.
LongHost == Repeat("abcdefghi.", 25) \o "com"

UrlInputs ==
  { "", "   ", "example.com", " www.example.com\n", "https://www.example.com/page",
    "http://sub.www.example.com/a", "www.www.example.com", "a b",
    "  https://example.com/page\t", LongHost }

\* The url props of a LinkPreviewCard: the content of a link item, a
\* string of at least one character that is stored as typed.
CardUrls ==
  { " www.example.com\n", "https://www.example.com/page", "a b", "example.com\n" }

\* What invoke gives when the answer is not the response of the function:
\* the request fails on the way, invoke throws, or a 2xx answer comes with
\* no body, with success false, or with no data.
OtherOutcomes ==
  { InvokeError, Thrown, InvokeData(Null),
    InvokeData(Str([success |-> FALSE, data |-> Null])),
    InvokeData(Str([success |-> TRUE, data |-> Null])) }

\* A request: its method and its body, which is JSON or not; url is Null
\* when the JSON has no url field.
Requests ==
  {[method |-> "OPTIONS", valid |-> FALSE, url |-> Null],
   [method |-> "POST", valid |-> FALSE, url |-> Null],
   [method |-> "POST", valid |-> TRUE, url |-> Null]}
  \cup {[method |-> "POST", valid |-> TRUE, url |-> Str(u)] : u \in UrlInputs}

NoRequest == [method |-> "", valid |-> FALSE, url |-> Null]

\* Values longer than the limits of the preview.
LongTitle == Repeat("Title ", 41) \o "end"

LongDescription == Repeat("Description ", 29) \o "end"

LongImage == "https://cdn.example.com/" \o Repeat("images/", 45) \o "x.png"

\* The chunks a remote body is made of: bytes on the wire, characters once
\* decoded, and the tags in the text.
Chunks ==
  { [bytes |-> 2048, chars |-> 2048,
     tags |-> <<Meta("property", "og:title", "Example Domain", "key-first"),
                Meta("property", "og:image", "/img/cover.png", "key-first"),
                Meta("name", "description", "An example page", "key-first"),
                TitleTag(" Example ")>>],
    [bytes |-> 1024, chars |-> 1024,
     tags |-> <<Meta("property", "og:title", "", "key-first"),
                Meta("property", "og:image", "", "key-first"),
                Meta("property", "og:description", "", "content-first"),
                TitleTag("  ")>>],
    [bytes |-> 4096, chars |-> 2048,
     tags |-> <<Meta("name", "twitter:image", "//cdn.example.com/x.png", "key-first"),
                Meta("name", "twitter:title", "Twitter title", "key-first"),
                Meta("name", "twitter:description", "Twitter description", "content-first"),
                Meta("name", "description", "Standard description", "content-first"),
                Meta("name", "title", "Standard title", "key-first"),
                Meta("name", "image", "/standard.png", "key-first"),
                TitleTag("Fallback title")>>],
    [bytes |-> 8192, chars |-> 8192,
     tags |-> <<Meta("property", "og:title", LongTitle, "key-first"),
                Meta("name", "description", LongDescription, "key-first"),
                Meta("property", "og:image", LongImage, "key-first")>>],
    [bytes |-> 512, chars |-> 512,
     tags |-> <<Meta("property", "og:image", "cover.png", "content-first"),
                Meta("property", "og:description", "Open Graph description", "content-first"),
                Meta("name", "twitter:description", "Twitter description", "key-first")>>],
    [bytes |-> 256, chars |-> 256,
     tags |-> <<Meta("property", "og:image", "ftp://bad host/x.png", "key-first"),
                Meta("name", "title", "Standard title", "key-first")>>],
    [bytes |-> 61440, chars |-> 61440, tags |-> <<>>],
    [bytes |-> 204800, chars |-> 204800, tags |-> <<>>] }

RECURSIVE SeqsUpTo(_, _)
SeqsUpTo(S, n) ==
  IF n = 0 THEN {<<>>}
  ELSE LET shorter == SeqsUpTo(S, n - 1)
       IN shorter \cup {Append(q, c) : q \in shorter, c \in S}

Bodies == SeqsUpTo(Chunks, MaxChunks)

\* What reader.read() rejects with when the stream breaks.
NoFault == [isError |-> FALSE, message |-> ""]

StreamFaults ==
  { [isError |-> TRUE, message |-> "connection reset"], NoFault }

JsonFault == [isError |-> TRUE, message |-> "Unexpected end of JSON input"]

\* How a body ends once its chunks are delivered: the stream closes, the
\* server stalls and sends nothing more, or the stream breaks.
Endings ==
  {[tail |-> "close", fault |-> NoFault], [tail |-> "stall", fault |-> NoFault]}
  \cup {[tail |-> "error", fault |-> f] : f \in StreamFaults}

\* A behaviour of the remote server: the fetch is rejected (network or DNS
\* failure), the server stalls before the headers, or it responds.
RemotePlans ==
  {[headers |-> h, status |-> 0, contentType |-> Null, hasBody |-> FALSE,
    chunks |-> <<>>, tail |-> "close", fault |-> NoFault] : h \in {"reject", "stall"}}
  \cup
  {[headers |-> "respond", status |-> st, contentType |-> ct, hasBody |-> TRUE,
    chunks |-> b, tail |-> e.tail, fault |-> e.fault] :
     st \in {200, 404},
     ct \in {Null, Str("application/pdf"), Str("text/html; charset=utf-8")},
     b \in Bodies, e \in Endings}
  \cup
  {[headers |-> "respond", status |-> 200, contentType |-> Str("text/html"),
    hasBody |-> FALSE, chunks |-> <<>>, tail |-> "close", fault |-> NoFault]}

NoPlan ==
  [headers |-> "", status |-> 0, contentType |-> Null, hasBody |-> FALSE,
   chunks |-> <<>>, tail |-> "close", fault |-> NoFault]

\* The users of the application.
Users == {"u", "v"}

ItemIds == {"i1", "i2"}

FolderIds == {"f1", "f2"}

Titles == {"a", "b"}

FolderNames == {"Work", "Home"}

\* The number of write transactions of a behaviour: each has a later now().
MaxNow == 3

\* Before the first request.
NoReply == [uid |-> "", op |-> "", rows |-> {}]

\* No page is open: no dialog, no request sent.
NoPage == [name |-> "", deleteDialog |-> Null, requests |-> <<>>]

\* The LinkPreviewCard before it is mounted: useState(null), useState(true),
\* useState(false), no request in flight, no run of the effect.
Unmounted ==
  [url |-> Null, preview |-> Null, loading |-> TRUE, imageError |-> FALSE,
   pending |-> {}, runs |-> 0]

\* EditItemDialog with no item: the initial values of its useState.
EditClosed ==
  [open |-> FALSE, title |-> "", description |-> "", type |-> "link", content |-> "",
   thumbnailUrl |-> "", refreshingPreview |-> FALSE, call |-> Null, outcome |-> Null]

\* The form of AddItemDialog as resetForm leaves it, without a default
\* folder.
EmptyForm ==
  [title |-> "", description |-> "", type |-> "link", content |-> "",
   thumbnailUrl |-> "", folderId |-> "none"]

\* AddItemDialog before it is opened: the initial values of its useState,
\* no submission under way, nothing inserted, no toast shown.
AddClosed ==
  [open |-> FALSE, loading |-> FALSE, form |-> EmptyForm, pc |-> "idle",
   submitted |-> Null, user |-> Null, inserts |-> <<>>, toast |-> ""]

\* FileUploadPreview before a file is chosen: the initial PreviewState, no
\* timer pending, no call of onFileSelect, no handler called.
NoFile ==
  [file |-> Null, previewUrl |-> Null, fileType |-> Null, loading |-> FALSE,
   error |-> Null, timers |-> <<>>, created |-> 0, notified |-> <<>>, lastCall |-> ""]

\* No link item yet, and nothing opened or fetched for it.
NoLink == [content |-> Null, opened |-> Null, cardOpened |-> Null, fetched |-> Null]

(***************************************************************************)
(* The state of one invocation of the handler.                             *)
(***************************************************************************)
VARIABLES
  pc,            \* "idle", "fetching" (await fetch), "reading" (await reader.read()), "done"
  req,           \* the request being handled
  plan,          \* the behaviour of the remote server for this invocation
  formattedUrl,  \* Null until the URL is formatted
  timerArmed,    \* the timer of setTimeout is pending
  aborted,       \* controller.signal.aborted
  response,      \* Null until the fetch resolves, then <<the Response>>
  html,          \* the text accumulated by the read loop
  bytesRead,
  delivered,     \* the number of chunks the reader has handed out
  fetchCount,    \* calls of fetch in this invocation
  readCount,     \* calls of reader.read() in this invocation
  result,        \* the response returned, NoResponse until then
  parked,        \* the state of the other invocation the runtime is serving
  cardPc,        \* LinkPreviewCard: "unmounted", "waiting" (await invoke), "settled"
  cardUrl,       \* the url prop of the card, Null until it is mounted
  preview,       \* useState<LinkPreview | null>(null)
  loading,       \* useState(true)
  imageError,    \* useState(false)
  outcome,       \* what the await of invoke gave, Null until then
  items,         \* the rows of public.items
  folders,       \* the rows of public.folders
  now,           \* the clock of the database: now() of the last transaction
  reply,         \* the last request to the records store: its user and the rows returned
  pages,         \* the page that renders the ItemCards, its deleteDialog and its requests
  liveCard,      \* a LinkPreviewCard whose url prop changes
  editDialog,    \* the state of EditItemDialog
  addDialog,     \* the state of AddItemDialog
  upload,        \* the state of FileUploadPreview
  link           \* a link item and the URLs opened and fetched for it

\* The state of the invocation the runtime is running.
invocation == <<pc, req, plan, formattedUrl, timerArmed, aborted, response, html,
                bytesRead, delivered, fetchCount, readCount, result>>

\* The state of the LinkPreviewCard component.
cardVars == <<cardPc, cardUrl, preview, loading, imageError, outcome>>

\* The state of the records store.
dbVars == <<items, folders, now, reply>>

\* The state of the pages and of their components.
uiVars == <<pages, liveCard, editDialog, addDialog, upload, link>>

\* The state outside the preview function and the preview card.
appVars == <<dbVars, uiVars>>

vars == <<invocation, parked, cardVars, appVars>>

\* An invocation that has not started.
Idle ==
  [pc |-> "idle", req |-> NoRequest, plan |-> NoPlan, formattedUrl |-> Null,
   timerArmed |-> FALSE, aborted |-> FALSE, response |-> Null, html |-> EmptyHtml,
   bytesRead |-> 0, delivered |-> 0, fetchCount |-> 0, readCount |-> 0,
   result |-> NoResponse]

Init ==
  /\ pc = "idle"
  /\ req = NoRequest
  /\ plan = NoPlan
  /\ formattedUrl = Null
  /\ timerArmed = FALSE
  /\ aborted = FALSE
  /\ response = Null
  /\ html = EmptyHtml
  /\ bytesRead = 0
  /\ delivered = 0
  /\ fetchCount = 0
  /\ readCount = 0
  /\ result = NoResponse
  /\ parked = Idle
  /\ cardPc = "unmounted"
  /\ cardUrl = Null
  /\ preview = Null
  /\ loading = TRUE
  /\ imageError = FALSE
  /\ outcome = Null
  /\ items = {}
  /\ folders = {}
  /\ now = 0
  /\ reply = NoReply
  /\ pages = NoPage
  /\ liveCard = Unmounted
  /\ editDialog = EditClosed
  /\ addDialog = AddClosed
  /\ upload = NoFile
  /\ link = NoLink

\* The handler returns r.
Return(r) ==
  /\ pc' = "done"
  /\ result' = r

\* A request arrives: the handler runs up to its first reply or to the
\* await of fetch, with the timer armed.
Receive(r, p) ==
  /\ req' = r
  /\ aborted' = FALSE
  /\ response' = Null
  /\ html' = EmptyHtml
  /\ bytesRead' = 0
  /\ delivered' = 0
  /\ readCount' = 0
  /\ IF r.method = "OPTIONS" \/ ~r.valid \/ UrlMissing(r.url)
     THEN /\ p = NoPlan
          /\ Return(IF r.method = "OPTIONS" THEN OptionsResponse
                    ELSE IF ~r.valid THEN ErrorResponse(JsonFault)
                    ELSE UrlRequiredResponse)
          /\ plan' = NoPlan
          /\ formattedUrl' = Null
          /\ timerArmed' = FALSE
          /\ fetchCount' = 0
     ELSE /\ p \in RemotePlans
          /\ plan' = p
          /\ formattedUrl' = Str(FormatUrl(Val(r.url)))
          /\ timerArmed' = TRUE
          /\ fetchCount' = 1
          /\ pc' = "fetching"
          /\ result' = NoResponse

\* The callback of setTimeout: controller.abort().
TimerFire ==
  /\ timerArmed
  /\ aborted' = TRUE
  /\ timerArmed' = FALSE
  /\ UNCHANGED <<pc, req, plan, formattedUrl, response, html, bytesRead,
                 delivered, fetchCount, readCount, result>>
  /\ UNCHANGED <<parked, cardVars, appVars>>

\* The promise of fetch rejects: the URL is invalid, the network or the
\* DNS fails, or the signal was aborted.
FetchRejects ==
  /\ pc = "fetching"
  /\ \/ NewURL(Val(formattedUrl)) = Null
     \/ plan.headers = "reject"
     \/ aborted

\* The promise of fetch resolves: the remote server sent its headers.
FetchResolves ==
  /\ pc = "fetching"
  /\ NewURL(Val(formattedUrl)) # Null
  /\ plan.headers = "respond"
  /\ ~aborted

\* The promise of reader.read() settles: with a chunk, with done, or with
\* a rejection.
ChunkArrives == pc = "reading" /\ delivered < Len(plan.chunks)

StreamCloses == pc = "reading" /\ delivered = Len(plan.chunks) /\ plan.tail = "close"

StreamBreaks == pc = "reading" /\ delivered = Len(plan.chunks) /\ plan.tail = "error"

FetchFail_Rethrow ==
  /\ FetchRejects
  /\ Return(ErrorResponse([isError |-> TRUE, message |-> "fetch failed"]))
  /\ timerArmed' = FALSE
  /\ UNCHANGED <<req, plan, formattedUrl, aborted, response, html, bytesRead,
                 delivered, fetchCount, readCount>>
  /\ UNCHANGED <<parked, cardVars, appVars>>

FetchFail_Retry ==
  /\ FetchRejects
  /\ timerArmed' = FALSE
  /\ IF fetchCount < 2 /\ NewURL(Val(formattedUrl)) # Null /\ ~aborted
     THEN /\ fetchCount' = fetchCount + 1
          /\ plan' = [plan EXCEPT !.headers = "respond", !.status = 404]
          /\ UNCHANGED <<pc, result>>
     ELSE /\ Return(SuccessResponse(FallbackPreview(Val(formattedUrl))))
          /\ UNCHANGED <<plan, fetchCount>>
  /\ UNCHANGED <<req, formattedUrl, aborted, response, html, bytesRead,
                 delivered, readCount>>
  /\ UNCHANGED <<parked, cardVars, appVars>>

\* fetch throws: the catch block answers, finally clears the timer.
FetchFail ==
  /\ FetchRejects
  /\ Return(SuccessResponse(FallbackPreview(Val(formattedUrl))))
  /\ timerArmed' = FALSE
  /\ UNCHANGED <<req, plan, formattedUrl, aborted, response, html, bytesRead,
                 delivered, fetchCount, readCount>>
  /\ UNCHANGED <<parked, cardVars, appVars>>

\* The text extracted and returned once the read loop is over.
Extracted(text) == SuccessResponse(ExtractPreview(text, Val(formattedUrl)))

\* fetch resolves with the headers of the response: finally clears the
\* timer, the status and the content type are checked, and the read loop
\* starts with its first reader.read().
FetchResolve ==
  /\ FetchResolves
  /\ response' = Str([status |-> plan.status, contentType |-> plan.contentType,
                      hasBody |-> plan.hasBody])
  /\ timerArmed' = FALSE
  /\ IF ~ResponseOk(plan.status) \/ ~IsHtml(plan.contentType)
     THEN /\ Return(SuccessResponse(FallbackPreview(Val(formattedUrl))))
          /\ readCount' = 0
     ELSE IF ~plan.hasBody
     THEN /\ Return(Extracted(EmptyHtml))
          /\ readCount' = 0
     ELSE /\ pc' = "reading"
          /\ readCount' = 1
          /\ result' = NoResponse
  /\ UNCHANGED <<req, plan, formattedUrl, aborted, html, bytesRead, delivered, fetchCount>>
  /\ UNCHANGED <<parked, cardVars, appVars>>

\* reader.read() resolves with a chunk: it is decoded and appended, and the
\* loop reads again or stops; when it stops the metadata is extracted.
ReadChunk ==
  /\ ChunkArrives
  /\ LET value == plan.chunks[delivered + 1]
         text  == AppendText(html, Decode(value))
         n     == bytesRead + value.bytes
     IN /\ html' = text
        /\ bytesRead' = n
        /\ delivered' = delivered + 1
        /\ IF ReadMore(n)
           THEN /\ readCount' = readCount + 1
                /\ UNCHANGED <<pc, result>>
           ELSE /\ Return(Extracted(text))
                /\ UNCHANGED readCount
  /\ UNCHANGED <<req, plan, formattedUrl, timerArmed, aborted, response, fetchCount>>
  /\ UNCHANGED <<parked, cardVars, appVars>>

\* reader.read() resolves with done: the loop breaks.
ReadDone ==
  /\ StreamCloses
  /\ Return(Extracted(html))
  /\ UNCHANGED <<req, plan, formattedUrl, timerArmed, aborted, response, html,
                 bytesRead, delivered, fetchCount, readCount>>
  /\ UNCHANGED <<parked, cardVars, appVars>>

\* reader.read() rejects: the outer catch answers 500.
ReadError ==
  /\ StreamBreaks
  /\ Return(ErrorResponse(plan.fault))
  /\ UNCHANGED <<req, plan, formattedUrl, timerArmed, aborted, response, html,
                 bytesRead, delivered, fetchCount, readCount>>
  /\ UNCHANGED <<parked, cardVars, appVars>>

\* The card is mounted with a url and its effect runs fetchPreview up to
\* the await of invoke, which sends { url } to the function.
CardFetch ==
  /\ cardPc = "unmounted"
  /\ pc = "idle"
  /\ \E u \in CardUrls :
       /\ cardUrl' = Str(u)
       /\ \E p \in RemotePlans :
            Receive([method |-> "POST", valid |-> TRUE, url |-> Str(u)], p)
  /\ loading' = TRUE
  /\ imageError' = FALSE
  /\ cardPc' = "waiting"
  /\ UNCHANGED <<preview, outcome, parked, appVars>>

\* fetchPreview resumes with what invoke gave: it sets the preview, and
\* finally sets loading to false.
Settle(settled) ==
  /\ outcome' = Str(settled)
  /\ preview' = fetchPreview(Val(cardUrl), settled)
  /\ loading' = FALSE
  /\ cardPc' = "settled"
  /\ UNCHANGED <<cardUrl, imageError, invocation, parked, appVars>>

\* invoke resolves with the response of the function.
CardSettle ==
  /\ cardPc = "waiting"
  /\ pc = "done"
  /\ Settle(InvokeResult(result))

\* invoke fails, throws, or resolves with an answer that is not the
\* function's.
CardSettleOther ==
  /\ cardPc = "waiting"
  /\ \E settled \in OtherOutcomes : Settle(settled)

\* A client sends a request, the remote server behaves in some way.
Invoke ==
  /\ pc = "idle"
  /\ \E r \in Requests, p \in RemotePlans \cup {NoPlan} : Receive(r, p)
  /\ UNCHANGED <<parked, cardVars, appVars>>

Next ==
  \/ Invoke
  \/ TimerFire
  \/ FetchFail
  \/ FetchResolve
  \/ ReadChunk
  \/ ReadDone
  \/ ReadError
  \/ CardFetch
  \/ CardSettle
  \/ CardSettleOther

Spec == Init /\ [][Next]_vars

(***************************************************************************)
(* Two invocations served at once.  The runtime runs one callback at a     *)
(* time; between two callbacks it may turn to the other invocation, whose  *)
(* state is kept in parked.                                                *)
(***************************************************************************)
\* The requests and the remote behaviours of the two invocations.
PairRequests ==
  {[method |-> "OPTIONS", valid |-> FALSE, url |-> Null],
   [method |-> "POST", valid |-> TRUE, url |-> Str("example.com")],
   [method |-> "POST", valid |-> TRUE, url |-> Str("http://sub.www.example.com/a")]}

PairPlans ==
  {p \in RemotePlans :
     /\ p.headers = "respond" =>
          /\ p.contentType \in {Str("text/html"), Str("text/html; charset=utf-8")}
          /\ p.tail \in {"close", "error"}
          /\ p.fault.isError
             \/ p.tail = "close"
     /\ \A i \in 1..Len(p.chunks) : p.chunks[i].bytes \in {2048, 4096}}

\* The state of the running invocation, as a record.
Running ==
  [pc |-> pc, req |-> req, plan |-> plan, formattedUrl |-> formattedUrl,
   timerArmed |-> timerArmed, aborted |-> aborted, response |-> response,
   html |-> html, bytesRead |-> bytesRead, delivered |-> delivered,
   fetchCount |-> fetchCount, readCount |-> readCount, result |-> result]

\* The runtime turns to the invocation in s.
Resume(s) ==
  /\ pc' = s.pc
  /\ req' = s.req
  /\ plan' = s.plan
  /\ formattedUrl' = s.formattedUrl
  /\ timerArmed' = s.timerArmed
  /\ aborted' = s.aborted
  /\ response' = s.response
  /\ html' = s.html
  /\ bytesRead' = s.bytesRead
  /\ delivered' = s.delivered
  /\ fetchCount' = s.fetchCount
  /\ readCount' = s.readCount
  /\ result' = s.result

Switch_SharedHtml ==
  /\ parked' = Running
  /\ Resume([parked EXCEPT !.html = html, !.bytesRead = bytesRead])
  /\ UNCHANGED <<cardVars, appVars>>

\* Between two callbacks the runtime turns to the other invocation: every
\* variable of the handler is local to its invocation.
Switch ==
  /\ parked' = Running
  /\ Resume(parked)
  /\ UNCHANGED <<cardVars, appVars>>

\* One of the two requests arrives.
PairInvoke ==
  /\ pc = "idle"
  /\ \E r \in PairRequests, p \in PairPlans \cup {NoPlan} : Receive(r, p)
  /\ UNCHANGED <<parked, cardVars, appVars>>

PairNext ==
  \/ PairInvoke
  \/ Switch
  \/ TimerFire
  \/ FetchFail
  \/ FetchResolve
  \/ ReadChunk
  \/ ReadDone
  \/ ReadError

PairSpec == Init /\ [][PairNext]_vars

(***************************************************************************)
(* The records store: the tables public.items and public.folders with      *)
(* their row-level policies, the foreign key of items.folder_id and the    *)
(* updated_at trigger.  uid is auth.uid() of the request.                  *)
(***************************************************************************)
\* "Users can view their own items"
ItemsSelectPolicy(uid, row) == uid = row.user_id

\* "Users can create their own items"
ItemsInsertPolicy(uid, row) == uid = row.user_id

\* "Users can update their own items": the expression is applied to the
\* row as it is and, there being no WITH CHECK, to the row as updated.
ItemsUpdatePolicy(uid, row) == uid = row.user_id

\* "Users can delete their own items"
ItemsDeletePolicy(uid, row) == uid = row.user_id

\* "Users can view their own folders"
FoldersSelectPolicy(uid, row) == uid = row.user_id

\* "Users can create their own folders"
FoldersInsertPolicy(uid, row) == uid = row.user_id

\* "Users can update their own folders"
FoldersUpdatePolicy(uid, row) == uid = row.user_id

\* "Users can delete their own folders"
FoldersDeletePolicy(uid, row) == uid = row.user_id

\* folder_id UUID REFERENCES public.folders(id): the check of the foreign
\* key looks at every folder, whoever owns it.
FolderIdValid(folder_id, table) ==
  IF folder_id = Null THEN TRUE ELSE \E f \in table : f.id = Val(folder_id)

\* update_updated_at_column(), before update on public.items
UpdatedAt(row, t) == [row EXCEPT !.updated_at = t]

OnDeleteSetNull_Cascade(id, t) ==
  {r \in items : r.folder_id # Str(id)}

\* ON DELETE SET NULL: the items of the deleted folder are updated, which
\* fires the trigger of items.
OnDeleteSetNull(id, t) ==
  {IF r.folder_id = Str(id) THEN UpdatedAt([r EXCEPT !.folder_id = Null], t) ELSE r :
     r \in items}

\* The columns a request sets in an update of an item.
ItemUpdates ==
  {[column |-> "user_id", value |-> Str(o)] : o \in Users}
  \cup {[column |-> "folder_id", value |-> f] : f \in {Null} \cup {Str(x) : x \in FolderIds}}
  \cup {[column |-> "title", value |-> Str(t)] : t \in Titles}

SetColumn(row, upd) ==
  IF upd.column = "user_id" THEN [row EXCEPT !.user_id = Val(upd.value)]
  ELSE IF upd.column = "folder_id" THEN [row EXCEPT !.folder_id = upd.value]
  ELSE IF upd.column = "title" THEN [row EXCEPT !.title = Val(upd.value)]
  ELSE [row EXCEPT !.name = Val(upd.value)]

\* The rows of a statement that the select policy lets the request see.
Returned(uid, op, rows) ==
  [uid |-> uid, op |-> op, rows |-> {r \in rows : uid = r.user_id}]

\* from("items").select("*")
SelectItems(uid) ==
  /\ reply' = [uid |-> uid, op |-> "select items",
               rows |-> {r \in items : ItemsSelectPolicy(uid, r)}]
  /\ UNCHANGED <<items, folders, now>>

\* from("folders").select("*")
SelectFolders(uid) ==
  /\ reply' = [uid |-> uid, op |-> "select folders",
               rows |-> {r \in folders : FoldersSelectPolicy(uid, r)}]
  /\ UNCHANGED <<items, folders, now>>

\* from("items").insert(item).select()
InsertItem(uid) ==
  /\ now < MaxNow
  /\ \E id \in ItemIds, owner \in Users, t \in Titles,
        fid \in {Null} \cup {Str(x) : x \in FolderIds} :
       LET row == [id |-> id, user_id |-> owner, folder_id |-> fid, title |-> t,
                   updated_at |-> now + 1]
       IN /\ \A r \in items : r.id # id
          /\ ItemsInsertPolicy(uid, row)
          /\ FolderIdValid(fid, folders)
          /\ items' = items \cup {row}
          /\ reply' = Returned(uid, "insert item", {row})
  /\ now' = now + 1
  /\ UNCHANGED folders

\* from("items").update(updates).eq("id", id).select()
UpdateItem(uid) ==
  /\ now < MaxNow
  /\ \E r \in items, upd \in ItemUpdates :
       LET row == UpdatedAt(SetColumn(r, upd), now + 1)
       IN /\ ItemsUpdatePolicy(uid, r)
          /\ ItemsUpdatePolicy(uid, row)
          /\ FolderIdValid(row.folder_id, folders)
          /\ items' = (items \ {r}) \cup {row}
          /\ reply' = Returned(uid, "update item", {row})
  /\ now' = now + 1
  /\ UNCHANGED folders

\* from("items").delete().eq("id", id)
DeleteItem(uid) ==
  /\ now < MaxNow
  /\ \E r \in items :
       /\ ItemsDeletePolicy(uid, r)
       /\ items' = items \ {r}
  /\ reply' = Returned(uid, "delete item", {})
  /\ now' = now + 1
  /\ UNCHANGED folders

\* from("folders").insert(folder).select()
InsertFolder(uid) ==
  /\ now < MaxNow
  /\ \E id \in FolderIds, owner \in Users, n \in FolderNames :
       LET row == [id |-> id, user_id |-> owner, name |-> n]
       IN /\ \A f \in folders : f.id # id
          /\ FoldersInsertPolicy(uid, row)
          /\ folders' = folders \cup {row}
          /\ reply' = Returned(uid, "insert folder", {row})
  /\ now' = now + 1
  /\ UNCHANGED items

\* from("folders").update(updates).eq("id", id).select()
UpdateFolder(uid) ==
  /\ now < MaxNow
  /\ \E f \in folders,
        upd \in {[column |-> "user_id", value |-> Str(o)] : o \in Users}
                \cup {[column |-> "name", value |-> Str(n)] : n \in FolderNames} :
       LET row == SetColumn(f, upd)
       IN /\ FoldersUpdatePolicy(uid, f)
          /\ FoldersUpdatePolicy(uid, row)
          /\ folders' = (folders \ {f}) \cup {row}
          /\ reply' = Returned(uid, "update folder", {row})
  /\ now' = now + 1
  /\ UNCHANGED items

\* from("folders").delete().eq("id", id)
DeleteFolder(uid) ==
  /\ now < MaxNow
  /\ \E f \in folders :
       /\ FoldersDeletePolicy(uid, f)
       /\ folders' = folders \ {f}
       /\ items' = OnDeleteSetNull(f.id, now + 1)
  /\ reply' = Returned(uid, "delete folder", {})
  /\ now' = now + 1

\* A request of the user uid to the records store.
Request(uid) ==
  \/ SelectItems(uid)
  \/ SelectFolders(uid)
  \/ InsertItem(uid)
  \/ UpdateItem(uid)
  \/ DeleteItem(uid)
  \/ InsertFolder(uid)
  \/ UpdateFolder(uid)
  \/ DeleteFolder(uid)

StoreNext ==
  /\ \E uid \in Users : Request(uid)
  /\ UNCHANGED <<invocation, parked, cardVars, uiVars>>

StoreSpec == Init /\ [][StoreNext]_vars

(***************************************************************************)
(* The pages that render ItemCard, and the deletion of an item.            *)
(***************************************************************************)
PageNames == {"Dashboard", "Index"}

\* The number of requests a page sends in a behaviour.
MaxRequests == 3

\* from("items").delete().eq("id", id) and from("folders").delete().eq("id", id)
DeleteRequest(table, id) == [table |-> table, op |-> "delete", id |-> id]

\* The page is opened.
OpenPage(name) ==
  /\ pages.name = ""
  /\ pages' = [pages EXCEPT !.name = name]

\* Dashboard: deleteItem.mutate(id); setDeleteDialog(null)
handleDeleteItem(id) ==
  pages' = [pages EXCEPT !.requests = Append(@, DeleteRequest("items", id)),
                         !.deleteDialog = Null]

\* Dashboard: deleteFolder.mutate(id); setDeleteDialog(null)
handleDeleteFolder(id) ==
  pages' = [pages EXCEPT !.requests = Append(@, DeleteRequest("folders", id)),
                         !.deleteDialog = Null]

\* Index: await supabase.from("items").delete().eq("id", id)
handleDelete(id) ==
  pages' = [pages EXCEPT !.requests = Append(@, DeleteRequest("items", id))]

\* setDeleteDialog({ type, id })
setDeleteDialog(type, id) ==
  pages' = [pages EXCEPT !.deleteDialog = Str([type |-> type, id |-> id])]

\* The Delete button of the ItemCard of the item id: onDelete(id), which
\* is what the page passed to the card.
ItemCardDelete(id) ==
  /\ pages.name \in PageNames
  /\ pages.deleteDialog = Null
  /\ IF pages.name = "Dashboard"
     THEN setDeleteDialog("item", id)
     ELSE /\ Len(pages.requests) < MaxRequests
          /\ handleDelete(id)

\* Dashboard: the delete entry of a folder.
FolderDelete(id) ==
  /\ pages.name = "Dashboard"
  /\ pages.deleteDialog = Null
  /\ setDeleteDialog("folder", id)

\* The dialog is dismissed: Cancel, or onOpenChange.
DialogCancel ==
  /\ pages.deleteDialog # Null
  /\ pages' = [pages EXCEPT !.deleteDialog = Null]

\* The Delete button of the confirmation dialog.
DialogConfirm ==
  /\ pages.deleteDialog # Null
  /\ Len(pages.requests) < MaxRequests
  /\ IF Val(pages.deleteDialog).type = "folder"
     THEN handleDeleteFolder(Val(pages.deleteDialog).id)
     ELSE handleDeleteItem(Val(pages.deleteDialog).id)

PagesNext ==
  /\ \/ \E name \in PageNames : OpenPage(name)
     \/ \E id \in ItemIds : ItemCardDelete(id)
     \/ \E id \in FolderIds : FolderDelete(id)
     \/ DialogCancel
     \/ DialogConfirm
  /\ UNCHANGED <<invocation, parked, cardVars, dbVars,
                 liveCard, editDialog, addDialog, upload, link>>

PagesSpec == Init /\ [][PagesNext]_vars

(***************************************************************************)
(* A LinkPreviewCard whose url prop changes: the effect runs again for     *)
(* each url, and nothing cancels the run before it.                        *)
(***************************************************************************)
LiveUrls == {"example.com", "https://www.example.org/page", "a b"}

\* The number of runs of the effect in a behaviour.
MaxRuns == 3

\* The markup of a page with a title.
TitledPage ==
  [len |-> 2048, tags |-> <<Meta("property", "og:title", "Example Domain", "key-first")>>]

\* The markup of a page with a title, a description and an image.
IllustratedPage ==
  [len |-> 4096,
   tags |-> <<Meta("property", "og:title", "Example Domain", "key-first"),
              Meta("name", "description", "An example page", "key-first"),
              Meta("property", "og:image", "/img/cover.png", "key-first")>>]

\* What the function answers for the url u: the fallback preview, the
\* preview extracted from a page, or an internal error.
FunctionAnswers(u) ==
  { SuccessResponse(FallbackPreview(FormatUrl(u))),
    SuccessResponse(ExtractPreview(TitledPage, FormatUrl(u))),
    SuccessResponse(ExtractPreview(IllustratedPage, FormatUrl(u))),
    ErrorResponse(NoFault) }

\* What the await of invoke can give for the url u.
Settlements(u) == {InvokeResult(r) : r \in FunctionAnswers(u)} \cup OtherOutcomes

\* One run of the effect: fetchPreview up to its await, for the url of
\* this render.
RunEffect(card, u) ==
  [card EXCEPT !.url = Str(u),
               !.loading = TRUE,
               !.imageError = FALSE,
               !.runs = @ + 1,
               !.pending = @ \cup {[n |-> card.runs + 1, url |-> u]}]

\* The card is mounted with a url.
LiveMount ==
  /\ liveCard.url = Null
  /\ \E u \in LiveUrls : liveCard' = RunEffect(liveCard, u)

\* The url prop changes: the effect has [url, onImageLoad] as dependencies
\* and returns no cleanup.
LiveChangeUrl ==
  /\ liveCard.url # Null
  /\ liveCard.runs < MaxRuns
  /\ \E u \in LiveUrls \ {Val(liveCard.url)} : liveCard' = RunEffect(liveCard, u)

\* The await of a run resumes: the run sets the preview for its own url,
\* and finally sets loading to false.
LiveSettle ==
  \E rq \in liveCard.pending : \E settled \in Settlements(rq.url) :
    liveCard' = [liveCard EXCEPT !.preview = fetchPreview(rq.url, settled),
                                 !.loading = FALSE,
                                 !.pending = @ \ {rq}]

LiveNext ==
  /\ \/ LiveMount
     \/ LiveChangeUrl
     \/ LiveSettle
  /\ UNCHANGED <<invocation, parked, cardVars, dbVars,
                 pages, editDialog, addDialog, upload, link>>

LiveSpec == Init /\ [][LiveNext]_vars

(***************************************************************************)
(* EditItemDialog and its Refresh Preview button.                          *)
(***************************************************************************)
\* The items the dialog is opened for.
EditItems ==
  {[title |-> t, description |-> d, type |-> ty, content |-> "example.com",
    thumbnail_url |-> th] :
     t \in {"Mine"}, d \in {Null, Str("Notes")}, ty \in {"link", "note"},
     th \in {Null, Str("https://old.example.com/t.png")}}

\* What the user types in the title and description fields.
TypedTexts == {"", "Mine"}

\* obj?.key of JavaScript, for obj null or <<an object>>: undefined, which
\* is Null here, when obj is null or has no such property.
Get(obj, key) ==
  IF obj = Null THEN Null
  ELSE IF key \in DOMAIN Val(obj) THEN Val(obj)[key]
  ELSE Null

\* useEffect on [item]: the form is populated.
EditOpen ==
  /\ ~editDialog.open
  /\ \E item \in EditItems :
       editDialog' =
         [editDialog EXCEPT !.open = TRUE,
                            !.title = item.title,
                            !.description = IF Truthy(item.description)
                                            THEN Val(item.description) ELSE "",
                            !.type = item.type,
                            !.content = item.content,
                            !.thumbnailUrl = IF Truthy(item.thumbnail_url)
                                             THEN Val(item.thumbnail_url) ELSE ""]

\* onChange of the title input
EditTitle ==
  /\ editDialog.open
  /\ \E t \in TypedTexts \ {editDialog.title} :
       editDialog' = [editDialog EXCEPT !.title = t]

\* onChange of the description input
EditDescription ==
  /\ editDialog.open
  /\ \E d \in TypedTexts \ {editDialog.description} :
       editDialog' = [editDialog EXCEPT !.description = d]

\* The Refresh Preview button, shown for a link and enabled unless
\* refreshing or without content: handleRefreshPreview up to its await,
\* which keeps the title and description of this render.
EditRefresh ==
  /\ editDialog.open
  /\ editDialog.type = "link"
  /\ ~editDialog.refreshingPreview
  /\ editDialog.content # ""
  /\ editDialog' =
       [editDialog EXCEPT !.refreshingPreview = TRUE,
                          !.call = Str([title |-> editDialog.title,
                                        description |-> editDialog.description,
                                        content |-> editDialog.content])]

\* handleRefreshPreview after its await, called with the form as in call
\* and given settled by invoke.
handleRefreshPreview(dialog, call, settled) ==
  LET data == settled.body
      done == [dialog EXCEPT !.refreshingPreview = FALSE,
                             !.call = Null,
                             !.outcome = Str(settled)]
  IN IF settled.kind = "thrown" \/ settled.error THEN done
     ELSE [done EXCEPT
             !.title = IF Truthy(Get(data, "title")) /\ call.title = ""
                       THEN Val(Get(data, "title")) ELSE @,
             !.description = IF Truthy(Get(data, "description")) /\ call.description = ""
                             THEN Val(Get(data, "description")) ELSE @,
             !.thumbnailUrl = IF Truthy(Get(data, "image"))
                              THEN Val(Get(data, "image")) ELSE @]

\* The await of invoke resumes.
EditSettle ==
  /\ editDialog.call # Null
  /\ \E settled \in Settlements(Val(editDialog.call).content) :
       editDialog' = handleRefreshPreview(editDialog, Val(editDialog.call), settled)

EditNext ==
  /\ \/ EditOpen
     \/ EditTitle
     \/ EditDescription
     \/ EditRefresh
     \/ EditSettle
  /\ UNCHANGED <<invocation, parked, cardVars, dbVars,
                 pages, liveCard, addDialog, upload, link>>

EditSpec == Init /\ [][EditNext]_vars

(***************************************************************************)
(* FileUploadPreview: the choice of a file, the timer of its preview and   *)
(* the removal of the file.                                                *)
(***************************************************************************)
MAX_FILE_SIZE == 20 * 1024 * 1024

SAFE_IMAGE_TYPES ==
  {"image/jpeg", "image/jpg", "image/png", "image/gif", "image/webp", "image/svg+xml"}

SAFE_VIDEO_TYPES == {"video/mp4", "video/webm", "video/ogg"}

SAFE_AUDIO_TYPES == {"audio/mpeg", "audio/mp3", "audio/wav", "audio/ogg", "audio/webm"}

SAFE_PDF_TYPES == {"application/pdf"}

getFileType(mimeType) ==
  IF mimeType \in SAFE_IMAGE_TYPES THEN "image"
  ELSE IF mimeType \in SAFE_VIDEO_TYPES THEN "video"
  ELSE IF mimeType \in SAFE_AUDIO_TYPES THEN "audio"
  ELSE IF mimeType \in SAFE_PDF_TYPES THEN "pdf"
  ELSE "unsupported"

\* The files the user chooses.
Files ==
  { [name |-> "a.png", size |-> 1024, type |-> "image/png"],
    [name |-> "b.pdf", size |-> MAX_FILE_SIZE, type |-> "application/pdf"],
    [name |-> "big.mp4", size |-> MAX_FILE_SIZE + 1, type |-> "video/mp4"] }

\* The number of files chosen in a behaviour.
MaxSelects == 3

\* handleFileSelect up to its return: a file over maxSize is refused, and
\* for any other the preview is marked loading, an object URL is created
\* and the timer of 100 ms is set.
handleFileSelect(state, file) ==
  IF file.size > MAX_FILE_SIZE
  THEN [state EXCEPT !.file = Null, !.previewUrl = Null, !.fileType = Null,
                     !.loading = FALSE,
                     !.error = Str("File size exceeds 20 MB limit"),
                     !.lastCall = "select"]
  ELSE [state EXCEPT !.loading = TRUE, !.error = Null,
                     !.created = @ + 1,
                     !.timers = Append(@, [file |-> file,
                                           previewUrl |-> state.created + 1,
                                           fileType |-> getFileType(file.type)]),
                     !.lastCall = "select"]

\* The callback of setTimeout: the preview is set and onFileSelect called.
TimerCallback(state) ==
  LET t == Head(state.timers)
  IN [state EXCEPT !.file = Str(t.file), !.previewUrl = Str(t.previewUrl),
                   !.fileType = Str(t.fileType), !.loading = FALSE, !.error = Null,
                   !.timers = Tail(@),
                   !.notified = Append(@, t.file)]

handleRemove(state) ==
  [state EXCEPT !.file = Null, !.previewUrl = Null, !.fileType = Null,
                !.loading = FALSE, !.error = Null, !.lastCall = "remove"]

\* A file is dropped on the drop zone or picked in the file dialog: the
\* drop zone is rendered while there is no file, the Replace button while
\* there is one and it is not loading.
UploadSelect ==
  /\ upload.file = Null \/ ~upload.loading
  /\ upload.created < MaxSelects
  /\ \E file \in Files : upload' = handleFileSelect(upload, file)

\* The timers have the same delay and fire in the order they were set.
UploadTimer ==
  /\ upload.timers # <<>>
  /\ upload' = TimerCallback(upload)

\* The remove button, rendered while there is a file and it is not loading.
UploadRemove ==
  /\ upload.file # Null
  /\ ~upload.loading
  /\ upload' = handleRemove(upload)

UploadNext ==
  /\ \/ UploadSelect
     \/ UploadTimer
     \/ UploadRemove
  /\ UNCHANGED <<invocation, parked, cardVars, dbVars,
                 pages, liveCard, editDialog, addDialog, link>>

UploadSpec == Init /\ [][UploadNext]_vars

(***************************************************************************)
(* A link item: the URL its ItemCard opens, the URL its LinkPreviewCard    *)
(* opens, and the URL the preview function fetches for it.                 *)
(***************************************************************************)
\* The content of a link item: a string of at least one character, stored
\* as typed.
LinkContents ==
  { "example.com", "www.example.com/path", "https://example.com", "http://example.com/a",
    "httpbin.org", "http.cat", "https.example.com", "httpd.apache.org/docs",
    " example.com", "example.com ", " https://example.com", "\thttp://example.com",
    "ftp://example.com", "HTTPS://EXAMPLE.COM" }

\* ItemCard, Open Link:
\* content.startsWith("http") ? content : `https://${content}`
OpenLinkUrl(content) ==
  IF StartsWith(content, "http") THEN content ELSE "https://" \o content

\* An item of type link is stored.
SaveLink ==
  /\ link.content = Null
  /\ \E c \in LinkContents : link' = [link EXCEPT !.content = Str(c)]

\* ItemCard: the Open Link entry of the menu calls window.open.
ItemCardOpenLink ==
  /\ link.content # Null
  /\ link.opened = Null
  /\ link' = [link EXCEPT !.opened = Str(OpenLinkUrl(Val(link.content)))]

\* LinkPreviewCard: handleLinkClick calls window.open(formatUrl(url)).
handleLinkClick ==
  /\ link.content # Null
  /\ link.cardOpened = Null
  /\ link' = [link EXCEPT !.cardOpened = Str(formatUrl(Val(link.content)))]

\* The card invokes the function with { url }, and the handler, the url
\* not being missing, fetches the formatted URL.
HandlerFetch ==
  /\ link.content # Null
  /\ link.fetched = Null
  /\ ~UrlMissing(link.content)
  /\ link' = [link EXCEPT !.fetched = Str(FormatUrl(Val(link.content)))]

LinkNext ==
  /\ \/ SaveLink
     \/ ItemCardOpenLink
     \/ handleLinkClick
     \/ HandlerFetch
  /\ UNCHANGED <<invocation, parked, cardVars, dbVars,
                 pages, liveCard, editDialog, addDialog, upload>>

LinkSpec == Init /\ [][LinkNext]_vars

(***************************************************************************)
(* AddItemDialog and its handleSubmit.                                     *)
(***************************************************************************)
\* A form that passes the validation.
GoodForm == [EmptyForm EXCEPT !.title = "t", !.content = "example.com"]

\* A text of n characters.
Text(n) == Repeat(Repeat("x", 100), n \div 100) \o Repeat("x", n % 100)

\* The forms the user submits: the good one, and the good one with one
\* field at or over a limit of the schema.
Forms ==
  {GoodForm}
  \cup {[GoodForm EXCEPT !.title = t] : t \in {"", Text(200), Text(201)}}
  \cup {[GoodForm EXCEPT !.content = c] : c \in {"", Text(2000), Text(2001)}}
  \cup {[GoodForm EXCEPT !.description = d] : d \in {"d", Text(500), Text(501)}}
  \cup {[GoodForm EXCEPT !.thumbnailUrl = t] :
          t \in {"https://example.com/t.png", "not a url"}}
  \cup {[GoodForm EXCEPT !.folderId = "f1"]}

\* The number of inserts the dialog sends in a behaviour.
MaxInserts == 2

itemSchema_NoMax(input) ==
  IF /\ Len(input.title) >= 1
     /\ Len(input.content) >= 1
     /\ input.thumbnailUrl # Null => NewURL(Val(input.thumbnailUrl)) # Null
  THEN Str(input)
  ELSE Null

\* itemSchema.safeParse(input): <<the data>> on success and Null on failure;
\* description and thumbnailUrl are Null when they are undefined.
itemSchema(input) ==
  IF /\ Len(input.title) >= 1
     /\ Len(input.title) <= 200
     /\ input.description # Null => Len(Val(input.description)) <= 500
     /\ input.type \in {"link", "image", "video", "note"}
     /\ Len(input.content) >= 1
     /\ Len(input.content) <= 2000
     /\ input.thumbnailUrl # Null =>
          \/ NewURL(Val(input.thumbnailUrl)) # Null
          \/ Val(input.thumbnailUrl) = ""
  THEN Str(input)
  ELSE Null

\* value || undefined
OrUndefined(value) == IF value = "" THEN Null ELSE Str(value)

\* The row handleSubmit inserts for the user, the validated data and the
\* folder of the form.
InsertedRow(user, data, folderId) ==
  [user_id       |-> user,
   title         |-> data.title,
   description   |-> data.description,
   type          |-> data.type,
   content       |-> data.content,
   thumbnail_url |-> data.thumbnailUrl,
   folder_id     |-> IF folderId = "none" THEN Null ELSE Str(folderId)]

\* The dialog is opened.
AddOpen ==
  /\ ~addDialog.open
  /\ addDialog.pc = "idle"
  /\ addDialog' = [addDialog EXCEPT !.open = TRUE]

\* The user fills the form.
AddFill ==
  /\ addDialog.open
  /\ addDialog.pc = "idle"
  /\ \E form \in Forms \ {addDialog.form} :
       addDialog' = [addDialog EXCEPT !.form = form]

\* The form is submitted: handleSubmit sets loading and validates, and
\* returns on a failure or goes on to await getUser.
AddSubmit ==
  /\ addDialog.open
  /\ addDialog.pc = "idle"
  /\ LET form == addDialog.form
         validation == itemSchema([title        |-> form.title,
                                   description  |-> OrUndefined(form.description),
                                   type         |-> form.type,
                                   content      |-> form.content,
                                   thumbnailUrl |-> OrUndefined(form.thumbnailUrl)])
     IN IF validation = Null
        THEN addDialog' = [addDialog EXCEPT !.loading = FALSE,
                                            !.toast = "Validation Error"]
        ELSE addDialog' = [addDialog EXCEPT !.loading = TRUE,
                                            !.pc = "getUser",
                                            !.submitted = validation,
                                            !.toast = ""]

\* getUser resolves: with no user handleSubmit returns, with a user it
\* sends the insert.
AddGetUser ==
  /\ addDialog.pc = "getUser"
  /\ Len(addDialog.inserts) < MaxInserts
  /\ \E user \in {Null} \cup {Str(uid) : uid \in Users} :
       IF user = Null
       THEN addDialog' = [addDialog EXCEPT !.loading = FALSE,
                                           !.pc = "idle",
                                           !.user = Null,
                                           !.toast = "You must be logged in to add items."]
       ELSE addDialog' =
              [addDialog EXCEPT
                 !.pc = "insert",
                 !.user = user,
                 !.inserts = Append(@, InsertedRow(Val(user), Val(addDialog.submitted),
                                                   addDialog.form.folderId))]

\* The insert is answered with an error: it is thrown and caught, and
\* finally clears loading.
AddInsertFails ==
  /\ addDialog.pc = "insert"
  /\ addDialog' = [addDialog EXCEPT !.loading = FALSE,
                                    !.pc = "idle",
                                    !.toast = "Failed to add item."]

\* The insert is answered without an error: the form is reset and the
\* dialog closed, and finally clears loading.
AddInsertSucceeds ==
  /\ addDialog.pc = "insert"
  /\ addDialog' = [addDialog EXCEPT !.form = EmptyForm,
                                    !.open = FALSE,
                                    !.loading = FALSE,
                                    !.pc = "idle",
                                    !.toast = "Success!"]

AddNext ==
  /\ \/ AddOpen
     \/ AddFill
     \/ AddSubmit
     \/ AddGetUser
     \/ AddInsertFails
     \/ AddInsertSucceeds
  /\ UNCHANGED <<invocation, parked, cardVars, dbVars,
                 pages, liveCard, editDialog, upload, link>>

AddSpec == Init /\ [][AddNext]_vars

(***************************************************************************)
(* Properties of the link-preview handler.                                 *)
(***************************************************************************)
\* The data of a success response.
Data == Val(result.data)

\* The response is the domain-only fallback: status 200, success, and a
\* preview without title, description and image.
IsFallback(r) ==
  /\ r.status = 200
  /\ r.success
  /\ r.data # Null
  /\ Val(r.data).title = Null
  /\ Val(r.data).description = Null
  /\ Val(r.data).image = Null

\* C1: every invocation of the handler eventually returns a response, also
\* when the remote server stalls before the headers or in the middle of the
\* body.
\* As a property of states: while an invocation awaits the remote server,
\* the promise it awaits can settle or the timer is still armed.  (The
\* runtime runs every callback that is ready and an invocation takes a
\* bounded number of steps, so an invocation fails to return exactly when
\* it reaches a state where it awaits and nothing can resume it.)
C1_EveryInvocationReturns ==
  (pc \in {"fetching", "reading"}) =>
    \/ timerArmed
    \/ FetchRejects
    \/ FetchResolves
    \/ ChunkArrives
    \/ StreamCloses
    \/ StreamBreaks

\* C2: a request whose url is missing or empty gets status 400 with
\* {success: false, error}, no data, and no outbound fetch; every other
\* request gets 200 or, on an internal failure, 500; success is true
\* exactly when the status is 200.  The requests are the invocations of
\* the operation: an OPTIONS preflight carries no JSON and is answered
\* 'ok' before the body is looked at.
C2_StatusContract ==
  (pc = "done" /\ req.method # "OPTIONS") =>
    LET noUrl == req.valid /\ (req.url = Null \/ req.url = Str(""))
    IN /\ result.json
       /\ noUrl => /\ result.status = 400
                   /\ ~result.success
                   /\ result.error # Null
                   /\ result.data = Null
                   /\ fetchCount = 0
       /\ ~noUrl => result.status \in {200, 500}
       /\ result.success <=> result.status = 200

C2_Witness ==
  /\ pc = "done"
  /\ req.method = "POST"
  /\ req.valid
  /\ req.url = Str("")
  /\ result.status = 400

\* C3: when the outbound fetch fails (network or DNS error, invalid URL,
\* abort by the timer) the handler answers 200 with success and a preview
\* whose title, description and image are absent and whose domain and url
\* are there.
C3_FetchFailureFallback ==
  (pc = "done" /\ fetchCount = 1 /\ response = Null) =>
    /\ IsFallback(result)
    /\ result.error = Null
    /\ Data.domain # Null
    /\ Data.url # Null

C3_Witness ==
  /\ pc = "done"
  /\ fetchCount = 1
  /\ response = Null
  /\ aborted
  /\ plan.headers = "stall"
  /\ result.status = 200

\* C4: the text accumulated by the read loop never exceeds 100 KiB.
C4_HtmlWithinCap == html.len <= 102400

\* C5: in a success response each of title, description and image is
\* absent or a non-empty string.
C5_NoEmptyPlaceholders ==
  (pc = "done" /\ result.success) =>
    /\ Data.title = Null \/ Val(Data.title) # ""
    /\ Data.description = Null \/ Val(Data.description) # ""
    /\ Data.image = Null \/ Val(Data.image) # ""

\* u is raw without its leading and trailing whitespace, with https://
\* in front unless it starts with http:// or https://.
IsNormalizedFrom(u, raw) ==
  LET n     == Len(raw)
      IsWs(k) == SubSeq(raw, k, k) \in Whitespace
      first == CHOOSE k \in 1..(n + 1) : (k = n + 1 \/ ~IsWs(k)) /\ \A m \in 1..(k - 1) : IsWs(m)
      last  == CHOOSE k \in 0..n : (k = 0 \/ ~IsWs(k)) /\ \A m \in (k + 1)..n : IsWs(m)
      core  == SubSeq(raw, first, last)
  IN u = IF StartsWith(core, "http://") \/ StartsWith(core, "https://")
         THEN core ELSE "https://" \o core

\* C6: in every success response data.url is the normalized input and
\* data.domain is there.
C6_UrlIsNormalizedInput ==
  (pc = "done" /\ result.success) =>
    /\ Data.url # Null
    /\ IsNormalizedFrom(Val(Data.url), Val(req.url))
    /\ Data.domain # Null

C6_Witness ==
  /\ pc = "done"
  /\ result.success
  /\ req.url = Str(" www.example.com\n")
  /\ Data.url = Str("https://www.example.com")
  /\ readCount > 0
  /\ Data.title # Null

\* C7: when the status of the remote response is not a success, the
\* handler answers 200 with the fallback and never reads the body.
C7_NotOkFallback ==
  (pc = "done" /\ response # Null /\ Val(response).status \notin 200..299) =>
    /\ IsFallback(result)
    /\ readCount = 0
    /\ html = EmptyHtml

C7_Witness ==
  /\ pc = "done"
  /\ response # Null
  /\ Val(response).status = 404
  /\ Val(response).contentType = Str("text/html; charset=utf-8")
  /\ plan.chunks # <<>>
  /\ result.status = 200

\* C8: when the Content-Type of the remote response is missing or does not
\* contain text/html, the handler answers with the fallback, whatever the
\* body, and never reads it.
C8_NotHtmlFallback ==
  (/\ pc = "done"
   /\ response # Null
   /\ \/ Val(response).contentType = Null
      \/ ~Includes(Val(Val(response).contentType), "text/html")) =>
    /\ IsFallback(result)
    /\ readCount = 0
    /\ html = EmptyHtml

C8_Witness ==
  /\ pc = "done"
  /\ response # Null
  /\ Val(response).status = 200
  /\ Val(response).contentType = Str("application/pdf")
  /\ \E i \in 1..Len(plan.chunks) : plan.chunks[i].tags # <<>>
  /\ result.status = 200

\* C9: the domain is the host of the normalized URL without a leading
\* "www."; a host that does not begin with "www." is reported unchanged.
C9_DomainStripsLeadingWww ==
  (pc = "done" /\ result.success /\ NewURL(Val(formattedUrl)) # Null) =>
    LET host == Val(NewURL(Val(formattedUrl))).hostname
    IN Data.domain = Str(IF StartsWith(host, "www.")
                         THEN SubSeq(host, 5, Len(host)) ELSE host)

\* C10: when the normalized URL does not parse, the domain is the input
\* string as it was sent, not the normalized one.
C10_UnparsedDomainIsRawInput ==
  (pc = "done" /\ result.success /\ NewURL(Val(formattedUrl)) = Null) =>
    Data.domain = req.url

\* C11: normalization is idempotent: normalizing an input puts https://
\* in front of the trimmed input at most once, and only when no scheme is
\* there; normalizing the result again changes nothing.  This holds of the
\* handler's normalization and of the component's formatUrl.
C11_NormalizationIdempotent ==
  formattedUrl # Null =>
    LET raw     == Val(req.url)
        trimmed == Trim(raw)
        once    == Val(formattedUrl)
    IN /\ once = (IF HasHttpScheme(trimmed) THEN trimmed ELSE "https://" \o trimmed)
       /\ ~StartsWith(once, "https://https://") \/ StartsWith(trimmed, "https://")
       /\ FormatUrl(once) = once
       /\ formatUrl(formatUrl(raw)) = formatUrl(raw)
       /\ formatUrl(once) = once

C11_Witness ==
  /\ pc = "done"
  /\ req.url = Str("example.com")
  /\ formattedUrl = Str("https://example.com")
  /\ result.success
  /\ Data.url = formattedUrl

\* The value of the first meta tag attr="key" of the captured text,
\* whatever the order of its attributes: a set with that value, empty
\* when there is no such tag or its value is empty.
MetaValues(attr, key) ==
  LET hits == {k \in 1..Len(html.tags) :
                 /\ html.tags[k].kind = "meta"
                 /\ html.tags[k].attr = attr
                 /\ html.tags[k].key = key}
  IN IF hits = {} THEN {}
     ELSE {html.tags[CHOOSE i \in hits : \A j \in hits : i <= j].content} \ {""}

\* The trimmed text of the first title element of the captured text.
TitleTexts ==
  LET hits == {k \in 1..Len(html.tags) : html.tags[k].kind = "title"}
  IN IF hits = {} THEN {}
     ELSE {Trim(html.tags[CHOOSE i \in hits : \A j \in hits : i <= j].content)} \ {""}

\* The values of the first of the sources that has one.
FirstSource(sources) ==
  LET present == {i \in 1..Len(sources) : sources[i] # {}}
  IN IF present = {} THEN {}
     ELSE sources[CHOOSE i \in present : \A j \in present : i <= j]

\* field is absent when no source has a value, and is else a value of the
\* first source that has one, cut to limit characters.
TakenFrom(field, sources, limit) ==
  IF FirstSource(sources) = {} THEN field = Null
  ELSE /\ field # Null
       /\ \E v \in FirstSource(sources) : Val(field) = Substring0(v, limit)

\* C12: the title is the value of the first source present in the captured
\* text in the order og:title, twitter:title, trimmed <title> text, and is
\* absent only when none of them is present.
C12_TitlePrecedence ==
  (pc = "done" /\ result.success) =>
    TakenFrom(Data.title,
              <<MetaValues("property", "og:title"),
                MetaValues("name", "twitter:title"),
                TitleTexts>>, 200)

\* C13: the description is the value of the first source present in the
\* order og:description, twitter:description, <meta name="description">;
\* the standard tag is a source of the description only: a title or an
\* image is never taken from <meta name="title"> or <meta name="image">.
C13_DescriptionPrecedence ==
  (pc = "done" /\ result.success) =>
    /\ TakenFrom(Data.description,
                 <<MetaValues("property", "og:description"),
                   MetaValues("name", "twitter:description"),
                   MetaValues("name", "description")>>, 300)
    /\ Data.title = Null \/ Val(Data.title) \notin MetaValues("name", "title")
    /\ Data.image = Null \/
         \A v \in MetaValues("name", "image") :
           Val(Data.image) # resolveUrl(Val(formattedUrl), v)

\* The captured text with the two attributes of every meta tag swapped.
Swapped(text) ==
  [text EXCEPT !.tags =
     [i \in 1..Len(text.tags) |->
        IF text.tags[i].kind # "meta" THEN text.tags[i]
        ELSE [text.tags[i] EXCEPT !.order =
                IF @ = "key-first" THEN "content-first" ELSE "key-first"]]]

\* C14: extraction does not depend on the order of the attributes: the
\* preview is the one extracted from the same text with the content
\* attribute on the other side of the identifying attribute in every tag.
C14_AttributeOrderIndependent ==
  (pc = "done" /\ result.success) =>
    Data = ExtractPreview(Swapped(html), Val(formattedUrl))

\* The invocation has read the body of an HTML page and extracted from it.
ExtractedFromPage ==
  /\ pc = "done"
  /\ result.success
  /\ response # Null
  /\ ResponseOk(Val(response).status)
  /\ IsHtml(Val(response).contentType)

\* s ends with t.
EndsWith(s, t) ==
  Len(s) >= Len(t) /\ SubSeq(s, Len(s) - Len(t) + 1, Len(s)) = t

\* C15: a found image value that starts with http:// or https:// is
\* returned unchanged, a protocol-relative value //host/path becomes
\* https://host/path also for an http page, any other value is resolved
\* against the formatted page URL (/img/cover.png against
\* https://example.com/page gives https://example.com/img/cover.png), and a
\* value that cannot be resolved is returned as found.
C15_ImageResolution ==
  LET found == extractMetaContent(html, "image")
      page  == Val(formattedUrl)
  IN (ExtractedFromPage /\ Truthy(found)) =>
       LET v        == Val(found)
           resolved == NewURLWithBase(v, page)
       IN /\ Data.image # Null
          /\ HasHttpScheme(v) => Val(Data.image) = v
          /\ StartsWith(v, "//") => Val(Data.image) = "https:" \o v
          /\ (v = "//cdn.example.com/x.png" /\ StartsWith(page, "http://"))
               => Val(Data.image) = "https://cdn.example.com/x.png"
          /\ (~HasHttpScheme(v) /\ ~StartsWith(v, "//"))
               => Val(Data.image) = (IF resolved = Null THEN v ELSE Val(resolved))
          /\ (v = "/img/cover.png" /\ page = "https://example.com/page")
               => Val(Data.image) = "https://example.com/img/cover.png"
          /\ (v = "cover.png" /\ page = "https://example.com/page")
               => Val(Data.image) = "https://example.com/cover.png"
          /\ v = "ftp://bad host/x.png" => Val(Data.image) = v

C15_Witness ==
  /\ ExtractedFromPage
  /\ formattedUrl = Str("http://sub.www.example.com/a")
  /\ extractMetaContent(html, "image") = Str("//cdn.example.com/x.png")
  /\ Data.image = Str("https://cdn.example.com/x.png")

\* C16: in a success response the title has at most 200 characters and the
\* description at most 300, an extracted title of more than 200 characters
\* is returned as its first 200 characters, and the image, the domain and
\* the url are returned whole.
C16_Truncation ==
  (pc = "done" /\ result.success) =>
    LET title == extractTitle(html)
        found == extractMetaContent(html, "image")
        page  == NewURL(Val(formattedUrl))
    IN /\ Data.title # Null => Len(Val(Data.title)) <= 200
       /\ Data.description # Null => Len(Val(Data.description)) <= 300
       /\ (ExtractedFromPage /\ Truthy(title) /\ Len(Val(title)) > 200)
            => /\ Data.title = Str(SubSeq(Val(title), 1, 200))
               /\ Len(Val(Data.title)) = 200
       /\ (ExtractedFromPage /\ Truthy(found))
            => EndsWith(Val(Data.image), Val(found))
       /\ page # Null
            => Len(Val(Data.domain)) >= Len(Val(page).hostname) - Len("www.")
       /\ Data.url = formattedUrl

C16_Witness ==
  /\ ExtractedFromPage
  /\ extractTitle(html) = Str(LongTitle)
  /\ Len(LongTitle) > 200
  /\ Data.title = Str(SubSeq(LongTitle, 1, 200))
  /\ Len(Val(Data.description)) = 300
  /\ Len(Val(Data.image)) > 300
  /\ Len(Val(Data.domain)) > 200

\* C17: an invocation calls fetch at most once and never again after it
\* has failed, answered with a status that is not a success or with
\* content that is not HTML; an OPTIONS request and a request answered with
\* 400 call it not at all.
C17_SingleAttempt ==
  /\ fetchCount <= 1
  /\ pc \in {"fetching", "reading"} => fetchCount = 1
  /\ pc = "done" =>
       /\ (req.method = "OPTIONS" \/ result.status = 400) => fetchCount = 0
       /\ formattedUrl # Null => fetchCount = 1
       /\ (IsFallback(result) /\ ~ExtractedFromPage) =>
            /\ fetchCount = 1
            /\ readCount = 0

C17_Witness ==
  /\ pc = "done"
  /\ plan.headers = "reject"
  /\ IsFallback(result)
  /\ fetchCount = 1

\* The stream of the response body broke before the read loop was over.
StreamErrored ==
  /\ pc = "done"
  /\ response # Null
  /\ ResponseOk(Val(response).status)
  /\ IsHtml(Val(response).contentType)
  /\ Val(response).hasBody
  /\ bytesRead < maxBytes
  /\ delivered = Len(plan.chunks)
  /\ plan.tail = "error"

\* C19: a request body that is not JSON and a response stream that breaks
\* during the body read are answered with status 500 and a body with
\* success false, no data, and as error the message of the fault when the
\* fault is an Error and 'Failed to fetch preview' otherwise.
C19_InternalFault ==
  /\ (pc = "done" /\ req.method = "POST" /\ ~req.valid) =>
       /\ result.status = 500
       /\ result.json /\ ~result.success /\ result.data = Null
       /\ result.error = Str(JsonFault.message)
       /\ fetchCount = 0
  /\ StreamErrored =>
       /\ result.status = 500
       /\ result.json /\ ~result.success /\ result.data = Null
       /\ plan.fault.isError => result.error = Str(plan.fault.message)
       /\ ~plan.fault.isError => result.error = Str("Failed to fetch preview")

C19_Witness ==
  /\ StreamErrored
  /\ delivered > 0
  /\ plan.fault = [isError |-> TRUE, message |-> "connection reset"]
  /\ result.status = 500
  /\ result.error = Str("connection reset")

\* The call of the card did not give a preview to show: invoke threw, it
\* resolved with an error, or its data has no success or no data.
CallFailed ==
  /\ outcome # Null
  /\ \/ Val(outcome).kind = "thrown"
     \/ Val(outcome).error
     \/ Val(outcome).body = Null
     \/ ~Val(Val(outcome).body).success
     \/ Val(Val(outcome).body).data = Null

\* C20: once the call of the LinkPreviewCard has settled, whatever it gave
\* (an error, a body with success false or without data, an exception, a
\* success), loading is false and preview is not null; when the call
\* failed the preview has no title, description and image and has the
\* domain and the formatted url of the card's url; until then the card is
\* loading.
C20_CardAlwaysSettlesToPreview ==
  /\ cardPc = "waiting" => (loading /\ outcome = Null)
  /\ cardPc = "settled" =>
       /\ outcome # Null
       /\ ~loading
       /\ preview # Null
       /\ CallFailed =>
            /\ Val(preview).title = Null
            /\ Val(preview).description = Null
            /\ Val(preview).image = Null
            /\ Val(preview).domain # Null
            /\ Val(preview).url # Null
            /\ HasHttpScheme(Val(Val(preview).url))
            /\ EndsWith(Val(Val(preview).url), Val(cardUrl))
            /\ Val(preview).domain =
                 Str(IF NewURL(Val(Val(preview).url)) = Null THEN Val(cardUrl)
                     ELSE ReplaceFirst(Val(NewURL(Val(Val(preview).url))).hostname,
                                       "www.", ""))
       /\ ~CallFailed => preview = Val(Val(outcome).body).data

C20_Witness ==
  /\ cardPc = "settled"
  /\ pc = "done"
  /\ result.status = 500
  /\ outcome = Str(InvokeError)
  /\ cardUrl = Str("example.com\n")
  /\ preview = Str([title |-> Null, description |-> Null, image |-> Null,
                    domain |-> Str("example.com"), url |-> Str("https://example.com\n")])
  /\ ~loading

\* The responses of the read loop of an invocation that runs alone, from
\* the text and the byte count it has after k chunks of the plan p.
RECURSIVE ReadAlone(_, _, _, _, _)
ReadAlone(p, page, k, text, n) ==
  IF k < Len(p.chunks)
  THEN LET value == p.chunks[k + 1]
           more  == AppendText(text, Decode(value))
       IN IF n + value.bytes < 100 * 1024
          THEN ReadAlone(p, page, k + 1, more, n + value.bytes)
          ELSE {SuccessResponse(ExtractPreview(more, page))}
  ELSE IF p.tail = "close" THEN {SuccessResponse(ExtractPreview(text, page))}
  ELSE IF p.tail = "error" THEN {ErrorResponse(p.fault)}
  ELSE {}

\* The responses an invocation can give to the request r when it runs alone
\* against the remote behaviour p: the timer may fire before the headers
\* arrive or not at all.
AloneResponses(r, p) ==
  IF r.method = "OPTIONS" THEN {OptionsResponse}
  ELSE IF ~r.valid THEN {ErrorResponse(JsonFault)}
  ELSE IF ~Truthy(r.url) THEN {UrlRequiredResponse}
  ELSE LET page     == FormatUrl(Val(r.url))
           fallback == SuccessResponse(FallbackPreview(page))
       IN IF NewURL(page) = Null \/ p.headers # "respond" THEN {fallback}
          ELSE IF ~ResponseOk(p.status) \/ ~IsHtml(p.contentType) THEN {fallback}
          ELSE {fallback} \cup
               (IF ~p.hasBody THEN {SuccessResponse(ExtractPreview(EmptyHtml, page))}
                ELSE ReadAlone(p, page, 0, EmptyHtml, 0))

\* The text and the byte count of the read loop after k chunks of p.
RECURSIVE TextAfter(_, _)
TextAfter(p, k) ==
  IF k = 0 THEN EmptyHtml ELSE AppendText(TextAfter(p, k - 1), Decode(p.chunks[k]))

RECURSIVE BytesAfter(_, _)
BytesAfter(p, k) ==
  IF k = 0 THEN 0 ELSE BytesAfter(p, k - 1) + p.chunks[k].bytes

\* The invocation in s has the state of an invocation that runs alone: its
\* text and its byte count are those of the chunks it was handed, its timer
\* and its abort signal are its own, and its response, once given, is one
\* it gives alone.
AsAlone(s) ==
  /\ s.pc = "done" => s.result \in AloneResponses(s.req, s.plan)
  /\ s.pc \in {"idle", "fetching"} => (s.html = EmptyHtml /\ s.bytesRead = 0)
  /\ s.pc = "reading" =>
       /\ s.html = TextAfter(s.plan, s.delivered)
       /\ s.bytesRead = BytesAfter(s.plan, s.delivered)
  /\ s.timerArmed => (s.pc = "fetching" /\ ~s.aborted)
  /\ s.aborted => s.fetchCount = 1
  /\ (s.pc = "done" /\ s.aborted /\ s.response = Null) =>
       s.result = SuccessResponse(FallbackPreview(Val(s.formattedUrl)))

\* C18: two invocations that are served at once do not interfere: in every
\* interleaving of their steps each has the text, the byte count, the timer
\* and the abort signal of an invocation that runs alone and gives a
\* response it gives alone against the same remote behaviour, and a step of
\* one invocation leaves the state of the other as it is.
C18_InvocationsIndependent ==
  /\ [](AsAlone(Running) /\ AsAlone(parked))
  /\ [][parked' = parked \/ (parked' = Running /\ Running' = parked)]_vars

C18_Witness ==
  /\ pc = "done"
  /\ req.url = Str("example.com")
  /\ delivered = 2
  /\ result.success
  /\ Data.title = Str("Twitter title")
  /\ parked.pc = "reading"
  /\ parked.req.url = Str("http://sub.www.example.com/a")
  /\ parked.delivered = 1
  /\ parked.html.tags # <<>>
  /\ parked.html # html

\* C29: a url that is empty once its whitespace is trimmed is missing
\* input: the handler answers 400 and calls fetch not at all, and never
\* answers with a success whose url is the bare scheme 'https://'.
C29_BlankUrlIsMissing ==
  (pc = "done" /\ req.method = "POST" /\ req.valid /\ req.url # Null
     /\ Trim(Val(req.url)) = "") =>
    /\ result.status = 400
    /\ ~result.success
    /\ fetchCount = 0

\* C21: a request of a user returns only rows of that user, leaves every
\* row of another user as it is, and adds or changes only rows that are
\* the user's own afterwards.
C21_OwnerScoped ==
  [][LET uid == reply'.uid
     IN /\ \A r \in reply'.rows : r.user_id = uid
        /\ \A r \in items : r.user_id # uid => r \in items'
        /\ \A r \in folders : r.user_id # uid => r \in folders'
        /\ \A r \in items' \ items : r.user_id = uid
        /\ \A r \in folders' \ folders : r.user_id = uid]_vars

\* The step deletes the folder f.
FolderDeleted(f) ==
  /\ reply'.op = "delete folder"
  /\ f \in folders
  /\ folders' = folders \ {f}

C27_FolderOfSameOwner ==
  \A r \in items :
    r.folder_id # Null =>
      \E f \in folders : f.id = Val(r.folder_id) /\ f.user_id = r.user_id

\* C23: whenever a page sends the request that deletes an item, the
\* confirmation dialog was open for that item and the step is its
\* confirmation; the Delete action of an ItemCard alone sends nothing.
C23_DeleteOnlyAfterConfirmation ==
  [][\A id \in ItemIds :
       (/\ Len(pages'.requests) > Len(pages.requests)
        /\ pages'.requests[Len(pages'.requests)] = DeleteRequest("items", id))
       => pages.deleteDialog = Str([type |-> "item", id |-> id])]_vars

\* C24: once the url prop has changed, when no request is in flight the
\* preview shown is one for the current url, and while the request for the
\* current url is in flight loading is true.
C24_CurrentUrlWins ==
  (liveCard.url # Null /\ liveCard.runs > 1) =>
    /\ liveCard.pending = {} =>
         /\ liveCard.preview # Null
         /\ Val(liveCard.preview).url = Str(formatUrl(Val(liveCard.url)))
    /\ (\E rq \in liveCard.pending : rq.n = liveCard.runs) => liveCard.loading

\* The data of the response when invoke gave {success: true, data} with an
\* image in the data, and Null otherwise.
WithImage(settled) ==
  IF /\ settled.kind = "resolved"
     /\ ~settled.error
     /\ settled.body # Null
     /\ Val(settled.body).success
     /\ Val(settled.body).data # Null
     /\ Truthy(Val(Val(settled.body).data).image)
  THEN Val(settled.body).data
  ELSE Null

\* C25: when a refresh ends refreshingPreview is false and a title or
\* description that was not empty is as before; when it ends with a
\* successful response that carries an image, the thumbnail URL is that
\* image and a title or description that was empty is the one of the
\* response if it has one.
C25_RefreshPreviewFillsForm ==
  [][(editDialog.call # Null /\ editDialog'.call = Null) =>
       LET data == WithImage(Val(editDialog'.outcome))
       IN /\ ~editDialog'.refreshingPreview
          /\ editDialog.title # "" => editDialog'.title = editDialog.title
          /\ editDialog.description # "" =>
               editDialog'.description = editDialog.description
          /\ data # Null =>
               /\ editDialog'.thumbnailUrl = Val(Val(data).image)
               /\ (editDialog.title = "" /\ Truthy(Val(data).title)) =>
                    editDialog'.title = Val(Val(data).title)
               /\ (editDialog.description = "" /\ Truthy(Val(data).description)) =>
                    editDialog'.description = Val(Val(data).description)]_vars

\* C26: while the last handler called is handleRemove the component has no
\* file and no preview URL, and onFileSelect is called only for a file
\* within the size limit and not while the last handler called is
\* handleRemove.
C26_RemovedStaysRemoved ==
  [][/\ upload'.lastCall = "remove" =>
          upload'.file = Null /\ upload'.previewUrl = Null
     /\ Len(upload'.notified) > Len(upload.notified) =>
          /\ upload'.notified[Len(upload'.notified)].size <= MAX_FILE_SIZE
          /\ upload.lastCall # "remove"]_vars

\* C28: the URL the ItemCard opens, the URL the LinkPreviewCard opens and
\* the URL the handler fetches for a link are one and the same.
C28_SameUrlEverywhere ==
  Cardinality({link.opened, link.cardOpened, link.fetched} \ {Null}) <= 1

\* The step belongs to handleSubmit: it is the submission or the return of
\* one of its awaits.
InHandleSubmit ==
  \/ addDialog.pc # "idle"
  \/ addDialog'.pc # "idle"
  \/ addDialog'.toast = "Validation Error" /\ addDialog'.form = addDialog.form

====
